---- MODULE Spec2Model ----
(***************************************************************************)
(* Graph-to-source compiler of the visual program editor:                  *)
(*   - ConnectionValidator (validateConnection, areTypesCompatible)        *)
(*   - ProgramFlowAnalyzer (analyzeFlow, topologicalSort, detectCycles,    *)
(*     findIsolatedNodes)                                                  *)
(*   - code generation (generateAnchorCode, analyzeProgramFlow,            *)
(*     generateInstruction)                                                *)
(* Optional values (a result not yet computed, an absent error) are        *)
(* sequences of length 0 or 1.                                             *)
(***************************************************************************)
EXTENDS Integers, Sequences, FiniteSets, TLC

VARIABLES
    nodes,        \* CanvasNode[]: the canvas / the snapshot passed to the core
    connections,  \* Connection[]: the stored connections / the snapshot
    proposal,     \* <<>> or <<the arguments of the last validateConnection>>
    validation,   \* <<>> or <<the ValidationResult of the last validateConnection>>
    analysis,     \* <<>> or <<the outcome of analyzeFlow(nodes, connections)>>
    generated,    \* <<>> or <<the outcome of generateAnchorCode(nodes, connections)>>
    calls         \* the generateAnchorCode calls of an editing session: snapshot and outcome

vars == <<nodes, connections, proposal, validation, analysis, generated, calls>>

----------------------------------------------------------------------------
(* Bounds of the model *)

\* longest existingConnections list handed to validateConnection
MaxExisting == 2
\* most connections the editor stores (the editor canvas has four input ports)
MaxEditConns == 5
\* most nodes of a graph snapshot, and the node ids 1..MaxNodes connections name
MaxNodes == 3
\* most connections of a graph snapshot
MaxConns == 2
\* most connections between the three nodes of the mutual-connection canvas
MaxMutualConns == 4
\* most connections between the three nodes of the cyclic snapshots
MaxCycleConns == 3
\* most generateAnchorCode calls of an editing session
MaxCalls == 3
\* most connections of a snapshot with port and node-type variety
MaxGenConns == 2
\* longest existingConnections list handed to validateConnection with ports of
\* any owner and type
MaxStored == 1

----------------------------------------------------------------------------
(* Data model: Port, CanvasNode, Connection *)

\* strings that the code takes apart (node names) are sequences of characters
Port(id, name, type) == [id |-> id, name |-> name, type |-> type]

CanvasNode(id, type, name, inputs, outputs) ==
    [id |-> id, type |-> type, name |-> name, inputs |-> inputs, outputs |-> outputs]

Connection(id, sourceNodeId, targetNodeId, sourcePortId, targetPortId) ==
    [id |-> id, sourceNodeId |-> sourceNodeId, targetNodeId |-> targetNodeId,
     sourcePortId |-> sourcePortId, targetPortId |-> targetPortId]

\* the port types the editor's modules use, with the types of the compatibility map
PortTypes ==
    {"any", "number", "string", "boolean", "data", "control", "event",
     "account", "flow", "object", "PublicKey"}

Range(s) == {s[i] : i \in DOMAIN s}

\* sequences over S of length at most n
SeqUpTo(S, n) == UNION {[1..k -> S] : k \in 0..n}

----------------------------------------------------------------------------
(* The outcome of a call: it returns a value or it throws (a TypeError) *)

Threw == [threw |-> TRUE]
Returned(value) == [threw |-> FALSE, value |-> value]

----------------------------------------------------------------------------
(* ConnectionValidator *)

\* the property names an object literal inherits from Object.prototype
ObjectPrototypeMembers ==
    {"constructor", "toString", "toLocaleString", "valueOf", "hasOwnProperty",
     "isPrototypeOf", "propertyIsEnumerable", "__proto__"}

\* compatibilityMap[sourceType]: the array of an own key, a member inherited
\* from Object.prototype (a function or object that has no includes), or
\* undefined
compatibilityMap(sourceType) ==
    CASE sourceType = "number"  -> [kind |-> "array", items |-> {"string", "boolean"}]
      [] sourceType = "string"  -> [kind |-> "array", items |-> {"number"}]
      [] sourceType = "data"    -> [kind |-> "array", items |-> {"any"}]
      [] sourceType = "control" -> [kind |-> "array", items |-> {"event"}]
      [] sourceType = "event"   -> [kind |-> "array", items |-> {"control"}]
      [] sourceType \in ObjectPrototypeMembers -> [kind |-> "inherited", items |-> {}]
      [] OTHER                  -> [kind |-> "undefined", items |-> {}]

\* entry?.includes(targetType) || false: undefined short-circuits to false, an
\* array answers, and calling the missing includes of an inherited member throws
includes(entry, targetType) ==
    IF entry.kind = "inherited" THEN Threw ELSE Returned(targetType \in entry.items)

areTypesCompatible_Symmetric(sourceType, targetType) ==
    IF sourceType = "any" \/ targetType = "any" THEN Returned(TRUE)
    ELSE IF sourceType = targetType THEN Returned(TRUE)
    ELSE IF includes(compatibilityMap(targetType), sourceType) = Returned(TRUE) THEN Returned(TRUE)
    ELSE includes(compatibilityMap(sourceType), targetType)

areTypesCompatible(sourceType, targetType) ==
    IF sourceType = "any" \/ targetType = "any" THEN Returned(TRUE)
    ELSE IF sourceType = targetType THEN Returned(TRUE)
    ELSE includes(compatibilityMap(sourceType), targetType)

SelfConnectionError == <<"Cannot connect node to itself">>
IncompatibleError(sourceType, targetType) ==
    <<"Incompatible types: ", sourceType, " -> ", targetType>>
DuplicateError == <<"Connection already exists">>
InputBoundError == <<"Port already has an input connection">>

\* { isValid: false, error } and { isValid: true } (error absent: <<>>); a call
\* of validateConnection that throws has the outcome Threw instead
Invalid(error) == [isValid |-> FALSE, error |-> <<error>>]
Valid == [isValid |-> TRUE, error |-> <<>>]

SameTuple(conn, sourceNode, sourcePort, targetNode, targetPort) ==
    /\ conn.sourceNodeId = sourceNode.id
    /\ conn.targetNodeId = targetNode.id
    /\ conn.sourcePortId = sourcePort.id
    /\ conn.targetPortId = targetPort.id

SameTarget(conn, targetNode, targetPort) ==
    conn.targetNodeId = targetNode.id /\ conn.targetPortId = targetPort.id

validateConnection_NoSelfRule(sourceNode, sourcePort, targetNode, targetPort, existingConnections) ==
    IF areTypesCompatible(sourcePort.type, targetPort.type).threw THEN Threw
    ELSE IF ~areTypesCompatible(sourcePort.type, targetPort.type).value
        THEN Invalid(IncompatibleError(sourcePort.type, targetPort.type))
    ELSE IF \E i \in DOMAIN existingConnections :
                SameTuple(existingConnections[i], sourceNode, sourcePort, targetNode, targetPort)
        THEN Invalid(DuplicateError)
    ELSE IF \E i \in DOMAIN existingConnections :
                SameTarget(existingConnections[i], targetNode, targetPort)
        THEN Invalid(InputBoundError)
    ELSE Valid

validateConnection_NoFanInRule(sourceNode, sourcePort, targetNode, targetPort, existingConnections) ==
    IF sourceNode.id = targetNode.id THEN Invalid(SelfConnectionError)
    ELSE IF areTypesCompatible(sourcePort.type, targetPort.type).threw THEN Threw
    ELSE IF ~areTypesCompatible(sourcePort.type, targetPort.type).value
        THEN Invalid(IncompatibleError(sourcePort.type, targetPort.type))
    ELSE IF \E i \in DOMAIN existingConnections :
                SameTuple(existingConnections[i], sourceNode, sourcePort, targetNode, targetPort)
        THEN Invalid(DuplicateError)
    ELSE Valid

validateConnection_FanInBeforeDuplicate(sourceNode, sourcePort, targetNode, targetPort, existingConnections) ==
    IF sourceNode.id = targetNode.id THEN Invalid(SelfConnectionError)
    ELSE IF areTypesCompatible(sourcePort.type, targetPort.type).threw THEN Threw
    ELSE IF ~areTypesCompatible(sourcePort.type, targetPort.type).value
        THEN Invalid(IncompatibleError(sourcePort.type, targetPort.type))
    ELSE IF \E i \in DOMAIN existingConnections :
                SameTarget(existingConnections[i], targetNode, targetPort)
        THEN Invalid(InputBoundError)
    ELSE IF \E i \in DOMAIN existingConnections :
                SameTuple(existingConnections[i], sourceNode, sourcePort, targetNode, targetPort)
        THEN Invalid(DuplicateError)
    ELSE Valid

validateConnection(sourceNode, sourcePort, targetNode, targetPort, existingConnections) ==
    IF sourceNode.id = targetNode.id THEN Invalid(SelfConnectionError)
    ELSE IF areTypesCompatible(sourcePort.type, targetPort.type).threw THEN Threw
    ELSE IF ~areTypesCompatible(sourcePort.type, targetPort.type).value
        THEN Invalid(IncompatibleError(sourcePort.type, targetPort.type))
    ELSE IF \E i \in DOMAIN existingConnections :
                SameTuple(existingConnections[i], sourceNode, sourcePort, targetNode, targetPort)
        THEN Invalid(DuplicateError)
    ELSE IF \E i \in DOMAIN existingConnections :
                SameTarget(existingConnections[i], targetNode, targetPort)
        THEN Invalid(InputBoundError)
    ELSE Valid

----------------------------------------------------------------------------
(* The arguments validateConnection is called with *)

Proposal(sourceNode, sourcePort, targetNode, targetPort, existingConnections) ==
    [sourceNode |-> sourceNode, sourcePort |-> sourcePort,
     targetNode |-> targetNode, targetPort |-> targetPort,
     existingConnections |-> existingConnections]

\* a drag from an output port of one node of the canvas to an input port of one
Endpoints(canvas) ==
    UNION {{<<s, o, t, i>> : o \in DOMAIN canvas[s].outputs, i \in DOMAIN canvas[t].inputs} :
              s \in DOMAIN canvas, t \in DOMAIN canvas}

Proposals(canvas, existingConnections) ==
    {Proposal(canvas[q[1]], canvas[q[1]].outputs[q[2]],
              canvas[q[3]], canvas[q[3]].inputs[q[4]], existingConnections) :
        q \in Endpoints(canvas)}

Validate(p) ==
    validateConnection(p.sourceNode, p.sourcePort, p.targetNode, p.targetPort,
                       p.existingConnections)

\* validateConnection called on a proposal against the stored list; nothing is stored
ValidateProposal ==
    /\ \E p \in Proposals(nodes, connections) :
          /\ proposal' = <<p>>
          /\ validation' = <<Validate(p)>>
    /\ UNCHANGED <<nodes, connections, analysis, generated, calls>>

----------------------------------------------------------------------------
(* Validator inputs: a two-node canvas whose output ports have one type and *)
(* whose input ports have one type, and any stored list over its ports      *)

ValidatorCanvas(sourceType, targetType) ==
    [k \in 1..2 |->
        CanvasNode(k, "instruction", IF k = 1 THEN <<"F", "i", "r", "s", "t">> ELSE <<"S", "e", "c", "o", "n", "d">>,
                   <<Port("in1", "input", targetType), Port("in2", "input", targetType)>>,
                   <<Port("out", "output", sourceType)>>)]

StoredTuples ==
    {Connection(0, s, t, "out", i) : s \in 1..2, t \in 1..2, i \in {"in1", "in2"}}

\* the stored connections carry distinct ids: their place in the list
Numbered(conns) == [k \in DOMAIN conns |-> [conns[k] EXCEPT !.id = k]]

ValidateTypes == {"any", "number", "string", "boolean"}

InitValidate ==
    /\ \E sourceType \in ValidateTypes, targetType \in ValidateTypes :
          nodes = ValidatorCanvas(sourceType, targetType)
    /\ \E conns \in SeqUpTo(StoredTuples, MaxExisting) : connections = Numbered(conns)
    /\ proposal = <<>>
    /\ validation = <<>>
    /\ analysis = <<>>
    /\ generated = <<>>
    /\ calls = <<>>

SpecValidate == InitValidate /\ [][ValidateProposal]_vars

InitTypes ==
    /\ \E sourceType \in PortTypes, targetType \in PortTypes :
          nodes = ValidatorCanvas(sourceType, targetType)
    /\ connections = <<>>
    /\ proposal = <<>>
    /\ validation = <<>>
    /\ analysis = <<>>
    /\ generated = <<>>
    /\ calls = <<>>

SpecTypes == InitTypes /\ [][ValidateProposal]_vars

\* validateConnection is a public static function of two nodes and two Port
\* objects: nothing ties the ports to the nodes or their types to the types
\* the editor knows. The callers' ports are the ports of the canvas, of either
\* node and either side, and stray ports of any type string.
ProposalCanvas ==
    <<CanvasNode(1, "instruction", <<"S", "o", "u", "r", "c", "e">>,
                 <<Port("a1", "input", "number")>>, <<Port("a2", "output", "number")>>),
      CanvasNode(2, "instruction", <<"S", "i", "n", "k">>,
                 <<Port("b1", "input", "number")>>, <<Port("b2", "output", "string")>>)>>

\* type strings: known ones, one the compatibility map does not know, and
\* property names of Object.prototype
ArbitraryTypes == {"any", "number", "string", "bytes", "constructor", "toString"}

AnyPorts(canvas) ==
    UNION {Range(canvas[k].inputs) \cup Range(canvas[k].outputs) : k \in DOMAIN canvas}
        \cup {Port("x", "stray", type) : type \in ArbitraryTypes}

StoredAny ==
    {Connection(0, s, t, o, i) : s \in 1..2, t \in 1..2, o \in {"a2", "b1"}, i \in {"b1", "a2"}}

ValidateAnyPorts ==
    /\ \E s \in DOMAIN nodes, t \in DOMAIN nodes :
          \E sourcePort \in AnyPorts(nodes), targetPort \in AnyPorts(nodes) :
              LET p == Proposal(nodes[s], sourcePort, nodes[t], targetPort, connections) IN
              /\ proposal' = <<p>>
              /\ validation' = <<Validate(p)>>
    /\ UNCHANGED <<nodes, connections, analysis, generated, calls>>

InitProposals ==
    /\ nodes = ProposalCanvas
    /\ \E conns \in SeqUpTo(StoredAny, MaxStored) : connections = Numbered(conns)
    /\ proposal = <<>>
    /\ validation = <<>>
    /\ analysis = <<>>
    /\ generated = <<>>
    /\ calls = <<>>

SpecProposals == InitProposals /\ [][ValidateAnyPorts]_vars

----------------------------------------------------------------------------
(* Validator-gated editing: the canvas of the editor and its stored         *)
(* connections. A completed drag stores the connection only when            *)
(* validateConnection accepts it against the stored list.                   *)

EditorCanvas ==
    <<CanvasNode(1, "account", <<"V", "a", "u", "l", "t">>, <<>>,
                 <<Port("p1", "vault", "account")>>),
      CanvasNode(2, "instruction", <<"D", "e", "p", "o", "s", "i", "t">>,
                 <<Port("p2", "vault", "account"), Port("p3", "amount", "number")>>,
                 <<Port("p4", "total", "number")>>),
      CanvasNode(3, "instruction", <<"R", "e", "p", "o", "r", "t">>,
                 <<Port("p5", "label", "string"), Port("p6", "value", "any")>>,
                 <<Port("p7", "text", "string")>>)>>

\* crypto.randomUUID(): an id no stored connection has
FreshId(conns) == CHOOSE k \in 1..(Len(conns) + 1) : \A i \in DOMAIN conns : conns[i].id # k

RemoveAt(s, i) == [k \in 1..(Len(s) - 1) |-> IF k < i THEN s[k] ELSE s[k + 1]]

CompleteConnection ==
    /\ Len(connections) < MaxEditConns
    /\ \E p \in Proposals(nodes, connections) :
          LET result == Validate(p) IN
          /\ proposal' = <<p>>
          /\ validation' = <<result>>
          /\ connections' =
                IF result # Threw /\ result.isValid
                THEN Append(connections,
                            Connection(FreshId(connections), p.sourceNode.id, p.targetNode.id,
                                       p.sourcePort.id, p.targetPort.id))
                ELSE connections
    /\ UNCHANGED <<nodes, analysis, generated, calls>>

DeleteConnection ==
    /\ \E i \in DOMAIN connections : connections' = RemoveAt(connections, i)
    /\ proposal' = <<>>
    /\ validation' = <<>>
    /\ UNCHANGED <<nodes, analysis, generated, calls>>

InitEdit ==
    /\ nodes = EditorCanvas
    /\ connections = <<>>
    /\ proposal = <<>>
    /\ validation = <<>>
    /\ analysis = <<>>
    /\ generated = <<>>
    /\ calls = <<>>

NextEdit == CompleteConnection \/ DeleteConnection

SpecEdit == InitEdit /\ [][NextEdit]_vars

----------------------------------------------------------------------------
(* ProgramFlowAnalyzer. A call either returns a value or throws (a TypeError *)
(* on reading a property of undefined).                                     *)

NodeIds(nodeList) == {nodeList[i].id : i \in DOMAIN nodeList}

\* nodes.map(n => n.id)
IdsOf(nodeList) == [i \in DOMAIN nodeList |-> nodeList[i].id]

\* connections.forEach: push the source onto dependencies[target] when that
\* entry exists
RECURSIVE pushDependencies(_, _, _)

pushDependencies_Unshift(conns, i, dependencies) ==
    IF i > Len(conns) THEN dependencies
    ELSE LET c == conns[i] IN
         pushDependencies(conns, i + 1,
             IF c.targetNodeId \in DOMAIN dependencies
             THEN [dependencies EXCEPT ![c.targetNodeId] = <<c.sourceNodeId>> \o @]
             ELSE dependencies)

pushDependencies(conns, i, dependencies) ==
    IF i > Len(conns) THEN dependencies
    ELSE LET c == conns[i] IN
         pushDependencies(conns, i + 1,
             IF c.targetNodeId \in DOMAIN dependencies
             THEN [dependencies EXCEPT ![c.targetNodeId] = Append(@, c.sourceNodeId)]
             ELSE dependencies)

buildDependencies(nodeList, conns) ==
    pushDependencies(conns, 1, [id \in NodeIds(nodeList) |-> <<>>])

\* topologicalSort: the closure visit and the forEach over a dependency list.
\* st = [visited, visiting, result, threw]; dependencies[nodeId] is undefined
\* for an id that is no key, and undefined.forEach throws.
RECURSIVE topoVisit(_, _, _)
RECURSIVE topoVisitAll(_, _, _, _)

topoVisit_NoVisitedGuard(nodeId, dependencies, st) ==
    IF st.threw THEN st
    ELSE IF nodeId \in st.visiting THEN st
    ELSE IF nodeId \notin DOMAIN dependencies THEN [st EXCEPT !.threw = TRUE]
    ELSE LET entered == [st EXCEPT !.visiting = @ \cup {nodeId}]
             after == topoVisitAll(dependencies[nodeId], 1, dependencies, entered)
         IN  IF after.threw THEN after
             ELSE [after EXCEPT !.visiting = @ \ {nodeId}, !.visited = @ \cup {nodeId},
                                !.result = Append(@, nodeId)]

topoVisit_AppendBeforeDependencies(nodeId, dependencies, st) ==
    IF st.threw THEN st
    ELSE IF nodeId \in st.visiting THEN st
    ELSE IF nodeId \in st.visited THEN st
    ELSE IF nodeId \notin DOMAIN dependencies THEN [st EXCEPT !.threw = TRUE]
    ELSE LET entered == [st EXCEPT !.visiting = @ \cup {nodeId}, !.result = Append(@, nodeId)]
             after == topoVisitAll(dependencies[nodeId], 1, dependencies, entered)
         IN  IF after.threw THEN after
             ELSE [after EXCEPT !.visiting = @ \ {nodeId}, !.visited = @ \cup {nodeId}]

topoVisit_ThrowOnReentry(nodeId, dependencies, st) ==
    IF st.threw THEN st
    ELSE IF nodeId \in st.visiting THEN [st EXCEPT !.threw = TRUE]
    ELSE IF nodeId \in st.visited THEN st
    ELSE IF nodeId \notin DOMAIN dependencies THEN [st EXCEPT !.threw = TRUE]
    ELSE LET entered == [st EXCEPT !.visiting = @ \cup {nodeId}]
             after == topoVisitAll(dependencies[nodeId], 1, dependencies, entered)
         IN  IF after.threw THEN after
             ELSE [after EXCEPT !.visiting = @ \ {nodeId},
                                !.visited = @ \cup {nodeId},
                                !.result = Append(@, nodeId)]

topoVisit(nodeId, dependencies, st) ==
    IF st.threw THEN st
    ELSE IF nodeId \in st.visiting THEN st
    ELSE IF nodeId \in st.visited THEN st
    ELSE IF nodeId \notin DOMAIN dependencies THEN [st EXCEPT !.threw = TRUE]
    ELSE LET entered == [st EXCEPT !.visiting = @ \cup {nodeId}]
             after == topoVisitAll(dependencies[nodeId], 1, dependencies, entered)
         IN  IF after.threw THEN after
             ELSE [after EXCEPT !.visiting = @ \ {nodeId},
                                !.visited = @ \cup {nodeId},
                                !.result = Append(@, nodeId)]

topoVisitAll(ids, i, dependencies, st) ==
    IF i > Len(ids) \/ st.threw THEN st
    ELSE topoVisitAll(ids, i + 1, dependencies, topoVisit(ids[i], dependencies, st))

topologicalSort(nodeIds, dependencies) ==
    topoVisitAll(nodeIds, 1, dependencies,
                 [visited |-> {}, visiting |-> {}, result |-> <<>>, threw |-> FALSE])

\* path.indexOf(nodeId), 0-based, -1 when absent
indexOf(path, nodeId) ==
    IF \E k \in DOMAIN path : path[k] = nodeId
    THEN (CHOOSE k \in DOMAIN path : path[k] = nodeId /\ \A j \in 1..(k - 1) : path[j] # nodeId) - 1
    ELSE -1

\* path.slice(start): a negative start counts from the end
slice(path, start) ==
    LET from == IF start < 0 THEN (IF Len(path) + start < 0 THEN 0 ELSE Len(path) + start)
                ELSE start
    IN  IF from >= Len(path) THEN <<>> ELSE SubSeq(path, from + 1, Len(path))

\* detectCycles: the closure visit(nodeId, path) and the forEach that hands every
\* dependency its own copy of the path. st = [visited, visiting, cycles, threw]
RECURSIVE cycleVisit(_, _, _, _)
RECURSIVE cycleVisitAll(_, _, _, _, _)

cycleVisit_WholePath(nodeId, path, dependencies, st) ==
    IF st.threw THEN st
    ELSE IF nodeId \in st.visiting
        THEN [st EXCEPT !.cycles = Append(@, path)]
    ELSE IF nodeId \in st.visited THEN st
    ELSE IF nodeId \notin DOMAIN dependencies THEN [st EXCEPT !.threw = TRUE]
    ELSE LET entered == [st EXCEPT !.visiting = @ \cup {nodeId}]
             pushed == Append(path, nodeId)
             after == cycleVisitAll(dependencies[nodeId], 1, pushed, dependencies, entered)
         IN  IF after.threw THEN after
             ELSE [after EXCEPT !.visiting = @ \ {nodeId}, !.visited = @ \cup {nodeId}]

cycleVisit_SliceAfterStart(nodeId, path, dependencies, st) ==
    IF st.threw THEN st
    ELSE IF nodeId \in st.visiting
        THEN [st EXCEPT !.cycles = Append(@, slice(path, indexOf(path, nodeId) + 1))]
    ELSE IF nodeId \in st.visited THEN st
    ELSE IF nodeId \notin DOMAIN dependencies THEN [st EXCEPT !.threw = TRUE]
    ELSE LET entered == [st EXCEPT !.visiting = @ \cup {nodeId}]
             pushed == Append(path, nodeId)
             after == cycleVisitAll(dependencies[nodeId], 1, pushed, dependencies, entered)
         IN  IF after.threw THEN after
             ELSE [after EXCEPT !.visiting = @ \ {nodeId}, !.visited = @ \cup {nodeId}]

cycleVisit_VisitedFirst(nodeId, path, dependencies, st) ==
    IF st.threw THEN st
    ELSE IF nodeId \in st.visited \/ nodeId \in st.visiting THEN st
    ELSE IF nodeId \notin DOMAIN dependencies THEN [st EXCEPT !.threw = TRUE]
    ELSE LET entered == [st EXCEPT !.visiting = @ \cup {nodeId}, !.visited = @ \cup {nodeId}]
             pushed == Append(path, nodeId)
             after == cycleVisitAll(dependencies[nodeId], 1, pushed, dependencies, entered)
         IN  IF after.threw THEN after
             ELSE [after EXCEPT !.visiting = @ \ {nodeId}]

cycleVisit(nodeId, path, dependencies, st) ==
    IF st.threw THEN st
    ELSE IF nodeId \in st.visiting
        THEN [st EXCEPT !.cycles = Append(@, slice(path, indexOf(path, nodeId)))]
    ELSE IF nodeId \in st.visited THEN st
    ELSE IF nodeId \notin DOMAIN dependencies THEN [st EXCEPT !.threw = TRUE]
    ELSE LET entered == [st EXCEPT !.visiting = @ \cup {nodeId}]
             pushed == Append(path, nodeId)
             after == cycleVisitAll(dependencies[nodeId], 1, pushed, dependencies, entered)
         IN  IF after.threw THEN after
             ELSE [after EXCEPT !.visiting = @ \ {nodeId}, !.visited = @ \cup {nodeId}]

cycleVisitAll(ids, i, path, dependencies, st) ==
    IF i > Len(ids) \/ st.threw THEN st
    ELSE cycleVisitAll(ids, i + 1, path, dependencies,
                       cycleVisit(ids[i], path, dependencies, st))

detectCycles(nodeIds, dependencies) ==
    cycleVisitAll(nodeIds, 1, <<>>, dependencies,
                  [visited |-> {}, visiting |-> {}, cycles |-> <<>>, threw |-> FALSE])

connectedNodes(conns) ==
    {conns[i].sourceNodeId : i \in DOMAIN conns} \cup {conns[i].targetNodeId : i \in DOMAIN conns}

findIsolatedNodes_TargetsOnly(nodeList, conns) ==
    LET connected == {conns[i].targetNodeId : i \in DOMAIN conns}
        NotConnected(node) == node.id \notin connected
    IN  IdsOf(SelectSeq(nodeList, NotConnected))

findIsolatedNodes(nodeList, conns) ==
    LET connected == connectedNodes(conns)
        NotConnected(node) == node.id \notin connected
    IN  IdsOf(SelectSeq(nodeList, NotConnected))

analyzeFlow(nodeList, conns) ==
    LET dependencies == buildDependencies(nodeList, conns)
        sorted == topologicalSort(IdsOf(nodeList), dependencies)
    IN  IF sorted.threw THEN Threw
        ELSE LET detected == detectCycles(IdsOf(nodeList), dependencies) IN
             IF detected.threw THEN Threw
             ELSE Returned([executionOrder |-> sorted.result,
                            dependencies |-> dependencies,
                            cycles |-> detected.cycles,
                            isolatedNodes |-> findIsolatedNodes(nodeList, conns)])

----------------------------------------------------------------------------
(* Code generation. A generated text is the record of the parts of its      *)
(* template that depend on the graph; the fixed text around them is left    *)
(* out.                                                                     *)

UpperCaseLetters ==
    <<"A", "B", "C", "D", "E", "F", "G", "H", "I", "J", "K", "L", "M",
      "N", "O", "P", "Q", "R", "S", "T", "U", "V", "W", "X", "Y", "Z">>
LowerCaseLetters ==
    <<"a", "b", "c", "d", "e", "f", "g", "h", "i", "j", "k", "l", "m",
      "n", "o", "p", "q", "r", "s", "t", "u", "v", "w", "x", "y", "z">>
Whitespace == {" ", "\t", "\n"}

\* the lower-case form of an upper-case letter
lowerCaseOf ==
    [c \in Range(UpperCaseLetters) |->
        LowerCaseLetters[CHOOSE u \in DOMAIN UpperCaseLetters : UpperCaseLetters[u] = c]]

\* String.prototype.toLowerCase
toLowerCase(str) ==
    [k \in DOMAIN str |-> IF str[k] \in DOMAIN lowerCaseOf THEN lowerCaseOf[str[k]] ELSE str[k]]

\* str.replace(/\s+/g, replacement): every maximal run of whitespace is replaced
RECURSIVE replaceWhitespace(_, _)
replaceWhitespace(str, replacement) ==
    IF str = <<>> THEN <<>>
    ELSE IF Head(str) \in Whitespace
        THEN IF Len(str) > 1 /\ str[2] \in Whitespace
             THEN replaceWhitespace(Tail(str), replacement)
             ELSE replacement \o replaceWhitespace(Tail(str), replacement)
    ELSE <<Head(str)>> \o replaceWhitespace(Tail(str), replacement)

\* node.name.toLowerCase().replace(/\s+/g, '_')
functionNameOf(node) == replaceWhitespace(toLowerCase(node.name), <<"_">>)
\* node.name.replace(/\s+/g, '')
structNameOf(node) == replaceWhitespace(node.name, <<>>)

\* nodes.find(n => n.id === nodeId): <<>> is undefined
find(nodeList, nodeId) ==
    IF \E k \in DOMAIN nodeList : nodeList[k].id = nodeId
    THEN <<nodeList[CHOOSE k \in DOMAIN nodeList :
                /\ nodeList[k].id = nodeId
                /\ \A j \in 1..(k - 1) : nodeList[j].id # nodeId]>>
    ELSE <<>>

\* ports.find(p => p.id === portId)
findPort(ports, portId) ==
    IF \E k \in DOMAIN ports : ports[k].id = portId
    THEN <<ports[CHOOSE k \in DOMAIN ports :
                /\ ports[k].id = portId
                /\ \A j \in 1..(k - 1) : ports[j].id # portId]>>
    ELSE <<>>

incomingOf_BySource(conns, nodeId) ==
    LET Leaves_(conn) == conn.sourceNodeId = nodeId IN SelectSeq(conns, Leaves_)

incomingOf(conns, nodeId) ==
    LET Targets_(conn) == conn.targetNodeId = nodeId IN SelectSeq(conns, Targets_)
touchingOf_CountsBothEnds(conns, nodeId) ==
    LET Leaves_(conn) == conn.sourceNodeId = nodeId
    IN  incomingOf(conns, nodeId) \o SelectSeq(conns, Leaves_)

touchingOf(conns, nodeId) ==
    LET Touches_(conn) == conn.sourceNodeId = nodeId \/ conn.targetNodeId = nodeId
    IN  SelectSeq(conns, Touches_)

entryPointsOf_AccountsToo(nodeList, conns) ==
    LET IsEntry(node) == ~\E k \in DOMAIN conns : conns[k].targetNodeId = node.id
        entries == SelectSeq(nodeList, IsEntry)
    IN  [k \in DOMAIN entries |-> entries[k].name]

entryPointsOf(nodeList, conns) ==
    LET IsEntry(node) ==
            /\ ~\E k \in DOMAIN conns : conns[k].targetNodeId = node.id
            /\ node.type # "account"
        entries == SelectSeq(nodeList, IsEntry)
    IN  [k \in DOMAIN entries |-> entries[k].name]

\* analyzeProgramFlow: the closure visit and the forEach over the incoming
\* connections of a behavioral node. st = [visited, visiting, executionOrder]
RECURSIVE flowVisit(_, _, _, _)
RECURSIVE flowVisitSources(_, _, _, _, _)

flowVisit_AppendBeforeSources(nodeId, nodeList, conns, st) ==
    IF nodeId \in st.visiting THEN st
    ELSE IF nodeId \in st.visited THEN st
    ELSE LET entered == [st EXCEPT !.visiting = @ \cup {nodeId}]
             node == find(nodeList, nodeId)
             after ==
                 IF node # <<>> /\ node[1].type # "account"
                 THEN flowVisitSources(incomingOf(conns, nodeId), 1, nodeList, conns,
                                       [entered EXCEPT !.executionOrder = Append(@, node[1].name)])
                 ELSE entered
         IN  [after EXCEPT !.visiting = @ \ {nodeId}, !.visited = @ \cup {nodeId}]

flowVisit(nodeId, nodeList, conns, st) ==
    IF nodeId \in st.visiting THEN st
    ELSE IF nodeId \in st.visited THEN st
    ELSE LET entered == [st EXCEPT !.visiting = @ \cup {nodeId}]
             node == find(nodeList, nodeId)
             after ==
                 IF node # <<>> /\ node[1].type # "account"
                 THEN LET sourced == flowVisitSources(incomingOf(conns, nodeId), 1,
                                                      nodeList, conns, entered)
                      IN  [sourced EXCEPT !.executionOrder = Append(@, node[1].name)]
                 ELSE entered
         IN  [after EXCEPT !.visiting = @ \ {nodeId}, !.visited = @ \cup {nodeId}]

flowVisitSources(incoming, i, nodeList, conns, st) ==
    IF i > Len(incoming) THEN st
    ELSE flowVisitSources(incoming, i + 1, nodeList, conns,
                          flowVisit(incoming[i].sourceNodeId, nodeList, conns, st))

RECURSIVE flowVisitNodes(_, _, _, _)
flowVisitNodes(nodeList, i, conns, st) ==
    IF i > Len(nodeList) THEN st
    ELSE flowVisitNodes(nodeList, i + 1, conns, flowVisit(nodeList[i].id, nodeList, conns, st))

\* connections.forEach: a record for a connection whose nodes and ports resolve
RECURSIVE dataFlowOf(_, _, _)
dataFlowOf(nodeList, conns, i) ==
    IF i > Len(conns) THEN <<>>
    ELSE LET conn == conns[i]
             sourceNode == find(nodeList, conn.sourceNodeId)
             targetNode == find(nodeList, conn.targetNodeId)
             rest == dataFlowOf(nodeList, conns, i + 1)
         IN  IF sourceNode # <<>> /\ targetNode # <<>>
             THEN LET sourcePort == findPort(sourceNode[1].outputs, conn.sourcePortId)
                      targetPort == findPort(targetNode[1].inputs, conn.targetPortId)
                  IN  IF sourcePort # <<>> /\ targetPort # <<>>
                      THEN <<[from |-> sourceNode[1].name, to |-> targetNode[1].name,
                              dataType |-> sourcePort[1].type, required |-> TRUE]>> \o rest
                      ELSE rest
             ELSE rest

analyzeProgramFlow(nodeList, conns) ==
    [entryPoints |-> entryPointsOf(nodeList, conns),
     executionOrder |->
         flowVisitNodes(nodeList, 1, conns,
                        [visited |-> {}, visiting |-> {}, executionOrder |-> <<>>]).executionOrder,
     dataFlow |-> dataFlowOf(nodeList, conns, 1)]

programName == <<"m", "y", "_", "p", "r", "o", "g", "r", "a", "m">>

generateLibRs(name, instructionNodes, accountNodes, conns) ==
    [programName |-> name,
     instructionImports |-> [k \in DOMAIN instructionNodes |-> functionNameOf(instructionNodes[k])],
     instructionHandlers |-> [k \in DOMAIN instructionNodes |-> functionNameOf(instructionNodes[k])],
     accountStructs |->
         [k \in DOMAIN accountNodes |->
             [structName |-> structNameOf(accountNodes[k]),
              connectedInstructions |-> Len(touchingOf(conns, accountNodes[k].id))]]]

\* node.type.toLowerCase() for the categories the switch tells apart
typeToLowerCase(type) ==
    CASE type \in {"token", "Token", "TOKEN"} -> "token"
      [] type \in {"nft", "NFT", "Nft"} -> "nft"
      [] type \in {"defi", "DeFi", "DEFI"} -> "defi"
      [] OTHER -> type

generateInstructionLogic(node) ==
    CASE typeToLowerCase(node.type) = "token" -> "Processing token operation"
      [] typeToLowerCase(node.type) = "nft" -> "Processing NFT operation"
      [] typeToLowerCase(node.type) = "defi" -> "Processing DeFi operation"
      [] OTHER -> "Processing custom operation"

generateInstruction_BindsEverySource(node, conns, allNodes) ==
    LET incoming == incomingOf(conns, node.id)
        sources == [k \in DOMAIN incoming |-> find(allNodes, incoming[k].sourceNodeId)]
        IsNode(n) == n # <<>>
        NotAccount(n) == ~(n # <<>> /\ n[1].type = "account")
        accounts == SelectSeq(sources, IsNode)
        others == SelectSeq(sources, NotAccount)
        connectedAccounts == [k \in DOMAIN accounts |-> structNameOf(accounts[k][1])]
    IN  IF \E k \in DOMAIN others : others[k] = <<>> THEN Threw
        ELSE LET connectedInstructions == [k \in DOMAIN others |-> others[k][1].name] IN
             Returned(
                [functionName |-> functionNameOf(node),
                 structName |-> structNameOf(node),
                 executing |-> node.name,
                 connectedInstructions |-> connectedInstructions,
                 entryPoint |-> Len(connectedInstructions) = 0,
                 logic |-> generateInstructionLogic(node),
                 updates |-> connectedAccounts,
                 accountFields |->
                     [k \in DOMAIN connectedAccounts |->
                         [field |-> toLowerCase(connectedAccounts[k]),
                          account |-> connectedAccounts[k]]],
                 authority |-> TRUE])

\* generateInstruction: .map(n => n!.name) throws on an incoming connection
\* whose source is no node (undefined passes the filter n?.type !== 'account')
generateInstruction(node, conns, allNodes) ==
    LET incoming == incomingOf(conns, node.id)
        sources == [k \in DOMAIN incoming |-> find(allNodes, incoming[k].sourceNodeId)]
        IsAccount(n) == n # <<>> /\ n[1].type = "account"
        NotAccount(n) == ~(n # <<>> /\ n[1].type = "account")
        accounts == SelectSeq(sources, IsAccount)
        others == SelectSeq(sources, NotAccount)
        connectedAccounts == [k \in DOMAIN accounts |-> structNameOf(accounts[k][1])]
    IN  IF \E k \in DOMAIN others : others[k] = <<>> THEN Threw
        ELSE LET connectedInstructions == [k \in DOMAIN others |-> others[k][1].name] IN
             Returned(
                [functionName |-> functionNameOf(node),
                 structName |-> structNameOf(node),
                 executing |-> node.name,
                 connectedInstructions |-> connectedInstructions,
                 entryPoint |-> Len(connectedInstructions) = 0,
                 logic |-> generateInstructionLogic(node),
                 updates |-> connectedAccounts,
                 accountFields |->
                     [k \in DOMAIN connectedAccounts |->
                         [field |-> toLowerCase(connectedAccounts[k]),
                          account |-> connectedAccounts[k]]],
                 authority |-> TRUE])

generateIntegrationTests(instructionNodes, conns) ==
    IF Len(conns) = 0 THEN <<>>
    ELSE <<[executionOrder |-> [k \in DOMAIN instructionNodes |-> instructionNodes[k].name]]>>

generateTests(name, instructionNodes, conns) ==
    [programName |-> name,
     testCases |->
         [k \in DOMAIN instructionNodes |->
             [name |-> instructionNodes[k].name,
              connectedNodes |-> Len(touchingOf(conns, instructionNodes[k].id)),
              functionName |-> functionNameOf(instructionNodes[k])]],
     integrationTests |-> generateIntegrationTests(instructionNodes, conns)]

generateCargoToml(name) == [package |-> name, lib |-> name, anchorLang |-> "0.29.0"]

generateAnchorToml(name) == [localnet |-> name, cluster |-> "Localnet"]

generateAnchorCode_OnlyInstructionType(nodeList, conns) ==
    LET IsInstructionNode(node) == node.type = "instruction"
        IsAccountNode(node) == node.type = "account"
        instructionNodes == SelectSeq(nodeList, IsInstructionNode)
        accountNodes == SelectSeq(nodeList, IsAccountNode)
        programFlow == analyzeProgramFlow(nodeList, conns)
        lib == generateLibRs(programName, instructionNodes, accountNodes, conns)
        instructions ==
            [k \in DOMAIN instructionNodes |-> generateInstruction(instructionNodes[k], conns, nodeList)]
    IN  IF \E k \in DOMAIN instructions : instructions[k].threw THEN Threw
        ELSE Returned([lib |-> lib,
                       instructions |-> [k \in DOMAIN instructions |-> instructions[k].value],
                       tests |-> generateTests(programName, instructionNodes, conns),
                       cargoToml |-> generateCargoToml(programName),
                       anchorToml |-> generateAnchorToml(programName),
                       programFlow |-> programFlow])

generateAnchorCode(nodeList, conns) ==
    LET IsInstructionNode(node) == node.type # "account"
        IsAccountNode(node) == node.type = "account"
        instructionNodes == SelectSeq(nodeList, IsInstructionNode)
        accountNodes == SelectSeq(nodeList, IsAccountNode)
        programFlow == analyzeProgramFlow(nodeList, conns)
        lib == generateLibRs(programName, instructionNodes, accountNodes, conns)
        instructions ==
            [k \in DOMAIN instructionNodes |-> generateInstruction(instructionNodes[k], conns, nodeList)]
    IN  IF \E k \in DOMAIN instructions : instructions[k].threw THEN Threw
        ELSE Returned([lib |-> lib,
                       instructions |-> [k \in DOMAIN instructions |-> instructions[k].value],
                       tests |-> generateTests(programName, instructionNodes, conns),
                       cargoToml |-> generateCargoToml(programName),
                       anchorToml |-> generateAnchorToml(programName),
                       programFlow |-> programFlow])

----------------------------------------------------------------------------
(* Graph snapshots handed to analyzeFlow and generateAnchorCode: the nodes  *)
(* 1..n in input order, each an account or an instruction, and any list of  *)
(* connections between the ids 1..MaxNodes (an id above n is the id of no   *)
(* node: a dangling reference).                                             *)

Digits == <<"1", "2", "3", "4", "5", "6", "7", "8", "9">>

GraphNode(id, type) ==
    CanvasNode(id, type, <<"M", "o", "d", " ", Digits[id]>>,
               <<Port("in", "input", "data")>>, <<Port("out", "output", "data")>>)

GraphNodeTypes == {"account", "instruction"}

GraphConnections ==
    {Connection(0, s, t, "out", "in") : s \in 1..MaxNodes, t \in 1..MaxNodes}

InitFlow ==
    /\ \E n \in 0..MaxNodes : \E types \in [1..n -> GraphNodeTypes] :
          nodes = [k \in 1..n |-> GraphNode(k, types[k])]
    /\ \E conns \in SeqUpTo(GraphConnections, MaxConns) : connections = Numbered(conns)
    /\ proposal = <<>>
    /\ validation = <<>>
    /\ analysis = <<>>
    /\ generated = <<>>
    /\ calls = <<>>

\* One call of the core per snapshot: analyzeFlow is a function of the snapshot.
\* The program-flow panel analyzes the snapshot
AnalyzeFlow ==
    /\ analysis = <<>> /\ generated = <<>>
    /\ analysis' = <<analyzeFlow(nodes, connections)>>
    /\ UNCHANGED <<nodes, connections, proposal, validation, generated, calls>>

\* handleGenerateCode generates from the snapshot
GenerateCode ==
    /\ analysis = <<>> /\ generated = <<>>
    /\ generated' = <<generateAnchorCode(nodes, connections)>>
    /\ UNCHANGED <<nodes, connections, proposal, validation, analysis, calls>>

NextFlow == AnalyzeFlow \/ GenerateCode

SpecFlow == InitFlow /\ [][NextFlow]_vars

\* Three instruction nodes and any list of connections between them
MutualCanvas ==
    <<GraphNode(1, "instruction"), GraphNode(2, "instruction"), GraphNode(3, "instruction")>>

MutualConnections ==
    {Connection(0, s, t, "out", "in") : s \in NodeIds(MutualCanvas), t \in NodeIds(MutualCanvas)}

InitMutual ==
    /\ nodes = MutualCanvas
    /\ \E conns \in SeqUpTo(MutualConnections, MaxMutualConns) : connections = Numbered(conns)
    /\ proposal = <<>>
    /\ validation = <<>>
    /\ analysis = <<>>
    /\ generated = <<>>
    /\ calls = <<>>

SpecMutual == InitMutual /\ [][AnalyzeFlow]_vars

\* Three nodes, each an account or an instruction, and any list of connections
\* between them: self-loops, two-node and three-node cycles, cycles that share
\* a node
InitCycles ==
    /\ \E types \in [NodeIds(MutualCanvas) -> GraphNodeTypes] :
          nodes = [k \in DOMAIN MutualCanvas |-> GraphNode(k, types[k])]
    /\ \E conns \in SeqUpTo(MutualConnections, MaxCycleConns) : connections = Numbered(conns)
    /\ proposal = <<>>
    /\ validation = <<>>
    /\ analysis = <<>>
    /\ generated = <<>>
    /\ calls = <<>>

SpecCycles == InitCycles /\ [][NextFlow]_vars

\* Snapshots for the generator: two nodes, each an account, an instruction or
\* a start node (an account has an account output, the others a data output),
\* and any list of connections that name the node ids 1 and 2 or the id 3 of
\* no node, from the output or from a port id that is no output of the
\* source, into the input or into a port id that is no input of the target.
GenNode(id, type) ==
    CanvasNode(id, type, <<"M", "o", "d", " ", Digits[id]>>,
               <<Port("in", "input", "any")>>,
               <<Port("out", "output", IF type = "account" THEN "account" ELSE "data")>>)

GenNodeTypes == {"account", "instruction", "start"}

GenNodeIds == {1, 2}

GenPortPairs == {<<"out", "in">>, <<"in", "in">>, <<"out", "out">>}

GenConnections ==
    {Connection(0, s, t, q[1], q[2]) :
        s \in GenNodeIds \cup {3}, t \in GenNodeIds \cup {3}, q \in GenPortPairs}

InitGenerate ==
    /\ \E types \in [GenNodeIds -> GenNodeTypes] :
          nodes = [k \in GenNodeIds |-> GenNode(k, types[k])]
    /\ \E conns \in SeqUpTo(GenConnections, MaxGenConns) : connections = Numbered(conns)
    /\ proposal = <<>>
    /\ validation = <<>>
    /\ analysis = <<>>
    /\ generated = <<>>
    /\ calls = <<>>

SpecGenerate == InitGenerate /\ [][GenerateCode]_vars

\* An editing session that generates repeatedly: the connections are edited
\* (validateConnection is called on every completed drag), the flow is analyzed
\* and the code is generated any number of times, on whatever the snapshot is.
RepeatCanvas ==
    <<CanvasNode(1, "account", <<"V", "a", "u", "l", "t">>, <<>>,
                 <<Port("p1", "vault", "account")>>),
      CanvasNode(2, "instruction", <<"D", "e", "p", "o", "s", "i", "t">>,
                 <<Port("p2", "vault", "account")>>,
                 <<Port("p3", "total", "number")>>)>>

Call(nodeList, conns, outcome) == [nodes |-> nodeList, connections |-> conns, outcome |-> outcome]

RepeatAnalyze_DrainsConnections ==
    /\ analysis' = <<analyzeFlow(nodes, connections)>>
    /\ connections' = <<>>
    /\ UNCHANGED <<nodes, proposal, validation, generated, calls>>

RepeatAnalyze ==
    /\ analysis' = <<analyzeFlow(nodes, connections)>>
    /\ UNCHANGED <<nodes, connections, proposal, validation, generated, calls>>

RepeatGenerate ==
    /\ Len(calls) < MaxCalls
    /\ LET outcome == generateAnchorCode(nodes, connections) IN
       /\ generated' = <<outcome>>
       /\ calls' = Append(calls, Call(nodes, connections, outcome))
    /\ UNCHANGED <<nodes, connections, proposal, validation, analysis>>

InitRepeat ==
    /\ nodes = RepeatCanvas
    /\ connections = <<>>
    /\ proposal = <<>>
    /\ validation = <<>>
    /\ analysis = <<>>
    /\ generated = <<>>
    /\ calls = <<>>

NextRepeat == CompleteConnection \/ DeleteConnection \/ RepeatAnalyze \/ RepeatGenerate

SpecRepeat == InitRepeat /\ [][NextRepeat]_vars

----------------------------------------------------------------------------
(* Snapshots whose nodes carry the names the editor gives them: every node  *)
(* dropped on the canvas is named 'New Instruction' until the user renames  *)
(* it, and a rename may differ from another name in case or whitespace only *)

DisplayNames ==
    {<<"N", "e", "w", " ", "I", "n", "s", "t", "r", "u", "c", "t", "i", "o", "n">>,
     <<"n", "e", "w", " ", "i", "n", "s", "t", "r", "u", "c", "t", "i", "o", "n">>,
     <<"N", "e", "w", " ", "\t", "I", "n", "s", "t", "r", "u", "c", "t", "i", "o", "n">>,
     <<"S", "w", "a", "p">>}

NamedNode(id, type, name) ==
    CanvasNode(id, type, name,
               <<Port("in", "input", "any")>>,
               <<Port("out", "output", IF type = "account" THEN "account" ELSE "data")>>)

NamedConnections ==
    {Connection(0, s, t, "out", "in") : s \in GenNodeIds, t \in GenNodeIds}

InitNames ==
    /\ \E types \in [GenNodeIds -> GenNodeTypes], names \in [GenNodeIds -> DisplayNames] :
          nodes = [k \in GenNodeIds |-> NamedNode(k, types[k], names[k])]
    /\ \E conns \in SeqUpTo(NamedConnections, MaxStored) : connections = Numbered(conns)
    /\ proposal = <<>>
    /\ validation = <<>>
    /\ analysis = <<>>
    /\ generated = <<>>
    /\ calls = <<>>

SpecNames == InitNames /\ [][GenerateCode]_vars

----------------------------------------------------------------------------
(* The three core operations alone, called in any order and any number of   *)
(* times on one snapshot: no editor action changes the graph in between.    *)

NextCore == ValidateProposal \/ RepeatAnalyze \/ RepeatGenerate

SpecCore == InitProposals /\ [][NextCore]_vars

----------------------------------------------------------------------------
(* Claims about the validator *)

Targets(conns, nodeId, portId) ==
    {i \in DOMAIN conns : conns[i].targetNodeId = nodeId /\ conns[i].targetPortId = portId}

\* C1: under validator-gated editing no (targetNodeId, targetPortId) pair is the
\* target of more than one stored connection, and a proposal into a pair that a
\* stored connection already targets is rejected.
C1_FanInAtMostOne ==
    /\ \A i \in DOMAIN connections :
          Cardinality(Targets(connections, connections[i].targetNodeId,
                              connections[i].targetPortId)) = 1
    /\ validation # <<>> =>
          LET p == proposal[1] IN
          Targets(p.existingConnections, p.targetNode.id, p.targetPort.id) # {}
              => ~validation[1].isValid

\* a second source was proposed into a bound input port and was rejected for it
C1_Witness ==
    /\ Len(connections) >= 2
    /\ validation # <<>>
    /\ validation[1] = Invalid(InputBoundError)
    /\ \E i \in DOMAIN connections :
          /\ connections[i].targetNodeId = proposal[1].targetNode.id
          /\ connections[i].targetPortId = proposal[1].targetPort.id
          /\ connections[i].sourceNodeId # proposal[1].sourceNode.id

\* the reference table of compatible port types
CompatiblePairs ==
    {<<"number", "string">>, <<"number", "boolean">>, <<"string", "number">>,
     <<"control", "event">>, <<"event", "control">>}

TypeTable(sourceType, targetType) ==
    \/ sourceType = "any"
    \/ targetType = "any"
    \/ sourceType = targetType
    \/ <<sourceType, targetType>> \in CompatiblePairs

Rule1(p) == p.sourceNode.id = p.targetNode.id
Rule2(p) == ~TypeTable(p.sourcePort.type, p.targetPort.type)
Rule3(p) ==
    \E i \in DOMAIN p.existingConnections :
        LET c == p.existingConnections[i] IN
        <<c.sourceNodeId, c.sourcePortId, c.targetNodeId, c.targetPortId>>
            = <<p.sourceNode.id, p.sourcePort.id, p.targetNode.id, p.targetPort.id>>
Rule4(p) == Targets(p.existingConnections, p.targetNode.id, p.targetPort.id) # {}

\* C2: validateConnection returns the outcome of the first failing rule in the
\* order self connection, incompatible types, duplicate, input already bound,
\* and accepts exactly when none of the four applies.
C2_FirstFailingRuleWins ==
    validation # <<>> =>
        LET p == proposal[1]
            r == validation[1]
        IN  /\ Rule1(p) => r = Invalid(SelfConnectionError)
            /\ ~Rule1(p) /\ Rule2(p)
                  => r = Invalid(IncompatibleError(p.sourcePort.type, p.targetPort.type))
            /\ ~Rule1(p) /\ ~Rule2(p) /\ Rule3(p) => r = Invalid(DuplicateError)
            /\ ~Rule1(p) /\ ~Rule2(p) /\ ~Rule3(p) /\ Rule4(p) => r = Invalid(InputBoundError)
            /\ r.isValid <=> ~(Rule1(p) \/ Rule2(p) \/ Rule3(p) \/ Rule4(p))
            /\ r.isValid => r = Valid

\* a proposal identical to a stored connection (so its input is bound too) got
\* the duplicate reason
C2_Witness ==
    /\ validation # <<>>
    /\ Rule3(proposal[1])
    /\ Rule4(proposal[1])
    /\ validation[1] = Invalid(DuplicateError)

\* C3: the validator's type check equals the reference table on every pair of
\* types: compatible iff either type is "any", the types are equal, or the pair
\* is one of number->string, number->boolean, string->number, control->event,
\* event->control. (A proposal between two different nodes is rejected as
\* incompatible exactly for the pairs outside the table.)
C3_TypeTable ==
    validation # <<>> /\ ~Rule1(proposal[1]) =>
        LET s == proposal[1].sourcePort.type
            t == proposal[1].targetPort.type
        IN  /\ (validation[1] = Invalid(IncompatibleError(s, t))) <=> ~TypeTable(s, t)
            /\ validation[1].isValid <=> TypeTable(s, t)

\* string -> boolean was proposed between two nodes and rejected as incompatible
C3_Witness ==
    /\ validation # <<>>
    /\ ~Rule1(proposal[1])
    /\ proposal[1].sourcePort.type = "string"
    /\ proposal[1].targetPort.type = "boolean"
    /\ validation[1] = Invalid(IncompatibleError("string", "boolean"))

----------------------------------------------------------------------------
(* Claims about the flow analyzer and the generator *)

\* Graph notions stated without the traversals of the code
ConnectionEdges(conns) == {<<conns[k].sourceNodeId, conns[k].targetNodeId>> : k \in DOMAIN conns}

Successors(R, S) == {e[2] : e \in {f \in R : f[1] \in S}}

RECURSIVE ReachableWithin(_, _)
ReachableWithin(R, S) ==
    LET T == S \cup Successors(R, S) IN IF T = S THEN S ELSE ReachableWithin(R, T)

\* the nodes reached from v along one or more edges
ReachableFrom(R, v) == ReachableWithin(R, Successors(R, {v}))

HasCycle(R) == \E e \in R : e[1] \in ReachableFrom(R, e[1])

Resolved(nodeList, conns) ==
    \A k \in DOMAIN conns :
        conns[k].sourceNodeId \in NodeIds(nodeList) /\ conns[k].targetNodeId \in NodeIds(nodeList)

Occurs(seq, x) == \E k \in DOMAIN seq : seq[k] = x
Position(seq, x) == CHOOSE k \in DOMAIN seq : seq[k] = x

AnalysisReturned == analysis # <<>> /\ ~analysis[1].threw
GenerationReturned == generated # <<>> /\ ~generated[1].threw

\* C4: for an acyclic graph whose connections all reference nodes of the graph,
\* every connection s -> t has s before t in analyzeFlow's executionOrder.
C4_SourceBeforeTarget ==
    (analysis # <<>> /\ Resolved(nodes, connections) /\ ~HasCycle(ConnectionEdges(connections))) =>
        /\ ~analysis[1].threw
        /\ \A k \in DOMAIN connections :
              LET order == analysis[1].value.executionOrder
                  s == connections[k].sourceNodeId
                  t == connections[k].targetNodeId
              IN  /\ Occurs(order, s)
                  /\ Occurs(order, t)
                  /\ Position(order, s) < Position(order, t)

\* a chain against the input order: 3 -> 2 -> 1 is ordered 3, 2, 1
C4_Witness ==
    /\ AnalysisReturned
    /\ Len(nodes) = 3
    /\ ConnectionEdges(connections) = {<<3, 2>>, <<2, 1>>}
    /\ analysis[1].value.executionOrder = <<3, 2, 1>>

\* the connections both of whose node ids are ids of nodes
ResolvedOnly(nodeList, conns) ==
    LET IsResolved(conn) ==
            conn.sourceNodeId \in NodeIds(nodeList) /\ conn.targetNodeId \in NodeIds(nodeList)
    IN  SelectSeq(conns, IsResolved)

\* C5: analyzeFlow returns without throwing for every connection list, and a
\* connection with a dangling node id is skipped: dependencies, ordering and
\* cycles are those of the graph without it.
C5_DanglingSkipped ==
    analysis # <<>> =>
        /\ ~analysis[1].threw
        /\ LET without == analyzeFlow(nodes, ResolvedOnly(nodes, connections)) IN
           /\ analysis[1].value.dependencies = without.value.dependencies
           /\ analysis[1].value.executionOrder = without.value.executionOrder
           /\ analysis[1].value.cycles = without.value.cycles

\* C6: generateAnchorCode returns a complete bundle without throwing for every
\* connection list, also when a connection into a behavioral node has a source
\* id that is the id of no node.
C6_GenerateTolerant ==
    generated # <<>> => ~generated[1].threw

NodeById(nodeList, id) == nodeList[CHOOSE k \in DOMAIN nodeList : nodeList[k].id = id]

\* analyzeFlow's order restricted to the non-account nodes, as node names
BehavioralNames(nodeList, order) ==
    LET IsBehavioral(id) == NodeById(nodeList, id).type # "account"
        kept == SelectSeq(order, IsBehavioral)
    IN  [k \in DOMAIN kept |-> NodeById(nodeList, kept[k]).name]

\* C7: for an acyclic snapshot with resolved endpoints, analyzeFlow's
\* executionOrder restricted to the non-account nodes and mapped to names is
\* generateAnchorCode's programFlow.executionOrder.
C7_OrdersAgree ==
    (GenerationReturned /\ Resolved(nodes, connections)
        /\ ~HasCycle(ConnectionEdges(connections))) =>
        LET analyzed == analyzeFlow(nodes, connections) IN
        /\ ~analyzed.threw
        /\ BehavioralNames(nodes, analyzed.value.executionOrder)
              = generated[1].value.programFlow.executionOrder

\* C8: with resolved endpoints, cycles is empty exactly when the dependency
\* graph has no directed cycle (a stored self-loop is a cycle).
C8_CyclesDecideCyclicity ==
    (analysis # <<>> /\ Resolved(nodes, connections)) =>
        /\ ~analysis[1].threw
        /\ (analysis[1].value.cycles = <<>>) <=> ~HasCycle(ConnectionEdges(connections))

\* a stored self-loop next to an acyclic connection is reported
C8_Witness ==
    /\ AnalysisReturned
    /\ \E k \in DOMAIN connections : connections[k].sourceNodeId = connections[k].targetNodeId
    /\ \E k \in DOMAIN connections : connections[k].sourceNodeId # connections[k].targetNodeId
    /\ analysis[1].value.cycles # <<>>

MutualPairs(conns) ==
    {e \in ConnectionEdges(conns) : e[1] # e[2] /\ <<e[2], e[1]>> \in ConnectionEdges(conns)}

\* C9 as stated: for two mutually connected nodes A and B, cycles contains a
\* cycle whose elements are exactly the ids of A and B.
C9_CycleExactlyTheTwo ==
    AnalysisReturned =>
        \A e \in MutualPairs(connections) :
            \E k \in DOMAIN analysis[1].value.cycles :
                Range(analysis[1].value.cycles[k]) = {e[1], e[2]}

\* C9 as amended: for two mutually connected nodes A and B of a graph with
\* resolved endpoints, analyzeFlow returns and cycles contains a cycle that
\* includes the ids of A and B.
C9_CycleIncludesTheTwo ==
    analysis # <<>> =>
        /\ ~analysis[1].threw
        /\ \A e \in MutualPairs(connections) :
              \E k \in DOMAIN analysis[1].value.cycles :
                  {e[1], e[2]} \subseteq Range(analysis[1].value.cycles[k])

\* 1 and 2 are mutually connected and the only cycle reported through them
\* runs over a third node
C9_Witness ==
    /\ AnalysisReturned
    /\ <<1, 2>> \in MutualPairs(connections)
    /\ \E k \in DOMAIN analysis[1].value.cycles :
          Range(analysis[1].value.cycles[k]) = {1, 2, 3}
    /\ ~\E k \in DOMAIN analysis[1].value.cycles :
          Range(analysis[1].value.cycles[k]) = {1, 2}

Untouched(conns, id) ==
    \A k \in DOMAIN conns : conns[k].sourceNodeId # id /\ conns[k].targetNodeId # id

UntouchedIds(nodeList, conns) ==
    LET IsUntouched(id) == Untouched(conns, id) IN SelectSeq(IdsOf(nodeList), IsUntouched)

SourcesInto(conns, t) ==
    LET Into(conn) == conn.targetNodeId = t
        into == SelectSeq(conns, Into)
    IN  [k \in DOMAIN into |-> into[k].sourceNodeId]

DependenciesOf(nodeList, conns) == [t \in NodeIds(nodeList) |-> SourcesInto(conns, t)]

\* C11: the dependencies map has exactly the node ids as keys and maps every
\* node t to the sourceNodeIds of the connections whose targetNodeId is t, in
\* connection order: the map analyzeFlow builds for every snapshot is that
\* one, and analyzeFlow returns it.
C11_DependenciesExact ==
    /\ buildDependencies(nodes, connections) = DependenciesOf(nodes, connections)
    /\ AnalysisReturned =>
          /\ DOMAIN analysis[1].value.dependencies = NodeIds(nodes)
          /\ \A t \in NodeIds(nodes) :
                analysis[1].value.dependencies[t] = SourcesInto(connections, t)

\* node 1 has the sources 3 then 2, against the input order; 2 and 3 have none
C11_Witness ==
    /\ AnalysisReturned
    /\ Len(nodes) = 3
    /\ Len(connections) = 2
    /\ connections[1].sourceNodeId = 3 /\ connections[1].targetNodeId = 1
    /\ connections[2].sourceNodeId = 2 /\ connections[2].targetNodeId = 1
    /\ analysis[1].value.dependencies = (1 :> <<3, 2>> @@ 2 :> <<>> @@ 3 :> <<>>)

\* C12: for every snapshot with resolved endpoints that contains a directed
\* cycle (self-loops and cycles sharing a node included) analyzeFlow and
\* generateAnchorCode both return a result and do not throw; the result of
\* analyzeFlow orders every node once.
C12_CyclesNeverCrash ==
    (Resolved(nodes, connections) /\ HasCycle(ConnectionEdges(connections))) =>
        /\ analysis # <<>> =>
              /\ ~analysis[1].threw
              /\ Len(analysis[1].value.executionOrder) = Len(nodes)
              /\ Range(analysis[1].value.executionOrder) = NodeIds(nodes)
        /\ generated # <<>> =>
              /\ ~generated[1].threw
              /\ Len(generated[1].value.instructions)
                    = Cardinality({k \in DOMAIN nodes : nodes[k].type # "account"})

\* a two-node cycle and a self-loop that share node 2 were analyzed
C12_Witness ==
    /\ AnalysisReturned
    /\ ConnectionEdges(connections) = {<<1, 2>>, <<2, 1>>, <<2, 2>>}
    /\ Len(analysis[1].value.cycles) >= 2

\* C14: validateConnection returns a structured result for every pair of nodes
\* and ports, whatever the type strings and the stored list, and never throws;
\* a rejection has isValid = false and an error, an acceptance has no error.
C14_ValidateTotal ==
    validation # <<>> =>
        /\ validation[1] # Threw
        /\ validation[1].isValid \in BOOLEAN
        /\ validation[1].isValid <=> validation[1].error = <<>>

OwnsOutput(node, port) == \E k \in DOMAIN node.outputs : node.outputs[k] = port
OwnsInput(node, port) == \E k \in DOMAIN node.inputs : node.inputs[k] = port

\* C15: a proposal that validateConnection accepts has a source port that is
\* one of the outputs of the source node and a target port that is one of the
\* inputs of the target node.
C15_AcceptedEndpointsResolve ==
    (validation # <<>> /\ validation[1] # Threw /\ validation[1].isValid) =>
        /\ OwnsOutput(proposal[1].sourceNode, proposal[1].sourcePort)
        /\ OwnsInput(proposal[1].targetNode, proposal[1].targetPort)

\* the type of the port with this id among the ports of the canvas
PortTypeOf(canvas, portId) ==
    LET ports == UNION {Range(canvas[k].inputs) \cup Range(canvas[k].outputs) : k \in DOMAIN canvas}
    IN  (CHOOSE port \in ports : port.id = portId).type

EndpointTuple(conn) ==
    <<conn.sourceNodeId, conn.sourcePortId, conn.targetNodeId, conn.targetPortId>>

\* C16: under validator-gated editing no stored connection has
\* sourceNodeId = targetNodeId, no two stored connections have the same
\* (sourceNodeId, sourcePortId, targetNodeId, targetPortId), and the port types
\* of every stored connection are compatible according to the table.
C16_StoredConnectionsValid ==
    /\ \A i \in DOMAIN connections : connections[i].sourceNodeId # connections[i].targetNodeId
    /\ \A i \in DOMAIN connections : \A j \in DOMAIN connections :
          EndpointTuple(connections[i]) = EndpointTuple(connections[j]) => i = j
    /\ \A i \in DOMAIN connections :
          TypeTable(PortTypeOf(nodes, connections[i].sourcePortId),
                    PortTypeOf(nodes, connections[i].targetPortId))

\* with connections stored, a drag from an output of a node to an input of the
\* same node with compatible types was proposed and not stored
C16_Witness ==
    /\ Len(connections) >= 2
    /\ validation # <<>>
    /\ validation[1] = Invalid(SelfConnectionError)
    /\ TypeTable(proposal[1].sourcePort.type, proposal[1].targetPort.type)
    /\ Targets(connections, proposal[1].targetNode.id, proposal[1].targetPort.id) = {}

----------------------------------------------------------------------------
(* Claims about the generated bundle *)

BehavioralNodes(nodeList) ==
    LET IsBehavioral(node) == node.type # "account" IN SelectSeq(nodeList, IsBehavioral)

AccountNodes(nodeList) ==
    LET IsAccount(node) == node.type = "account" IN SelectSeq(nodeList, IsAccount)

\* a name without its whitespace
Compact(name) == LET NoSpace(c) == c \notin Whitespace IN SelectSeq(name, NoSpace)

\* C17: generateAnchorCode emits one instruction module per node whose type is
\* not "account", in node input order (a start node included), and one account
\* declaration in lib per node whose type is "account"; every node yields one
\* or the other and none yields both.
C17_PartitionByType ==
    GenerationReturned =>
        LET bundle == generated[1].value
            behavioral == BehavioralNodes(nodes)
            accounts == AccountNodes(nodes)
        IN  /\ Len(bundle.instructions) = Len(behavioral)
            /\ \A k \in DOMAIN behavioral :
                  /\ bundle.instructions[k].executing = behavioral[k].name
                  /\ bundle.instructions[k].structName = Compact(behavioral[k].name)
            /\ Len(bundle.lib.accountStructs) = Len(accounts)
            /\ \A k \in DOMAIN accounts :
                  bundle.lib.accountStructs[k].structName = Compact(accounts[k].name)
            /\ Len(bundle.instructions) + Len(bundle.lib.accountStructs) = Len(nodes)

\* a start node before an account: one module, for the start node, and one
\* account declaration
C17_Witness ==
    /\ GenerationReturned
    /\ nodes[1].type = "start"
    /\ nodes[2].type = "account"
    /\ Len(generated[1].value.instructions) = 1
    /\ generated[1].value.instructions[1].executing = nodes[1].name
    /\ Len(generated[1].value.lib.accountStructs) = 1

\* the compact names of the account nodes that are the source of a connection
\* into this node, one per connection, in connection order
BoundAccounts(nodeList, conns, node) ==
    LET FromAccount(conn) ==
            /\ conn.targetNodeId = node.id
            /\ \E j \in DOMAIN nodeList :
                  nodeList[j].id = conn.sourceNodeId /\ nodeList[j].type = "account"
        bound == SelectSeq(conns, FromAccount)
    IN  [k \in DOMAIN bound |-> Compact(NodeById(nodeList, bound[k].sourceNodeId).name)]

\* C18: in every returned bundle (the sources of the incoming connections of
\* its behavioral nodes then resolve) the module of a behavioral node has one
\* bound account field per incoming connection from an account node and none
\* for the others, one advance-state statement per bound account field, and
\* the authority signer field.
C18_BoundAccountFields ==
    GenerationReturned =>
        LET behavioral == BehavioralNodes(nodes) IN
        \A k \in DOMAIN behavioral :
            LET module == generated[1].value.instructions[k]
                bound == BoundAccounts(nodes, connections, behavioral[k])
            IN  /\ Len(module.accountFields) = Len(bound)
                /\ \A i \in DOMAIN bound : module.accountFields[i].account = bound[i]
                /\ Len(module.updates) = Len(module.accountFields)
                /\ \A i \in DOMAIN bound : module.updates[i] = module.accountFields[i].account
                /\ module.authority

\* an instruction with one connection from an account and one from itself has
\* one bound account field; the account node has no module
C18_Witness ==
    /\ GenerationReturned
    /\ nodes[1].type = "account"
    /\ nodes[2].type = "instruction"
    /\ ConnectionEdges(connections) = {<<1, 2>>, <<2, 2>>}
    /\ Len(generated[1].value.instructions) = 1
    /\ Len(generated[1].value.instructions[1].accountFields) = 1
    /\ Len(generated[1].value.instructions[1].updates) = 1

\* the names, in input order, of the non-account nodes no connection targets
UntargetedBehavioralNames(nodeList, conns) ==
    LET Untargeted(node) ==
            /\ node.type # "account"
            /\ \A k \in DOMAIN conns : conns[k].targetNodeId # node.id
        kept == SelectSeq(nodeList, Untargeted)
    IN  [k \in DOMAIN kept |-> kept[k].name]

\* C19: programFlow.entryPoints is the list, in node input order, of the names
\* of the non-account nodes that are the targetNodeId of no connection; no
\* account node appears in it. The list computed for every snapshot is that
\* one, and generateAnchorCode returns it.
C19_EntryPointsExact ==
    /\ entryPointsOf(nodes, connections) = UntargetedBehavioralNames(nodes, connections)
    /\ GenerationReturned =>
          /\ generated[1].value.programFlow.entryPoints
                = UntargetedBehavioralNames(nodes, connections)
          /\ \A k \in DOMAIN nodes :
                nodes[k].type = "account"
                    => ~Occurs(generated[1].value.programFlow.entryPoints, nodes[k].name)

\* the start node feeds the instruction before it: only the start node is an
\* entry point
C19_Witness ==
    /\ GenerationReturned
    /\ nodes[1].type = "instruction"
    /\ nodes[2].type = "start"
    /\ ConnectionEdges(connections) = {<<2, 1>>}
    /\ generated[1].value.programFlow.entryPoints = <<nodes[2].name>>

HasNode(nodeList, id) == \E k \in DOMAIN nodeList : nodeList[k].id = id
HasPort(ports, portId) == \E k \in DOMAIN ports : ports[k].id = portId
PortById(ports, portId) == ports[CHOOSE k \in DOMAIN ports : ports[k].id = portId]

\* source node, target node, source port among the outputs of the source and
\* target port among the inputs of the target all resolve
FullyResolved(nodeList, conn) ==
    /\ HasNode(nodeList, conn.sourceNodeId)
    /\ HasNode(nodeList, conn.targetNodeId)
    /\ HasPort(NodeById(nodeList, conn.sourceNodeId).outputs, conn.sourcePortId)
    /\ HasPort(NodeById(nodeList, conn.targetNodeId).inputs, conn.targetPortId)

DataFlowRecords(nodeList, conns) ==
    LET Kept(conn) == FullyResolved(nodeList, conn)
        kept == SelectSeq(conns, Kept)
    IN  [k \in DOMAIN kept |->
            [from |-> NodeById(nodeList, kept[k].sourceNodeId).name,
             to |-> NodeById(nodeList, kept[k].targetNodeId).name,
             dataType |-> PortById(NodeById(nodeList, kept[k].sourceNodeId).outputs,
                                   kept[k].sourcePortId).type,
             required |-> TRUE]]

\* C20: generateAnchorCode returns without error for every connection list,
\* and programFlow.dataFlow holds, in connection order, one record {from, to,
\* dataType, required} for each connection whose nodes and ports all resolve
\* and none for any other connection.
C20_DataFlowExact ==
    generated # <<>> =>
        /\ ~generated[1].threw
        /\ generated[1].value.programFlow.dataFlow = DataFlowRecords(nodes, connections)

IsBehavioralId(nodeList, id) == HasNode(nodeList, id) /\ NodeById(nodeList, id).type # "account"

\* C21: for an acyclic snapshot with resolved endpoints, every connection
\* s -> t between two non-account nodes has the name of s at an earlier
\* position of programFlow.executionOrder than the name of t.
C21_GeneratedOrderRespectsConnections ==
    (generated # <<>> /\ Resolved(nodes, connections)
        /\ ~HasCycle(ConnectionEdges(connections))) =>
        /\ ~generated[1].threw
        /\ \A k \in DOMAIN connections :
              LET order == generated[1].value.programFlow.executionOrder
                  s == connections[k].sourceNodeId
                  t == connections[k].targetNodeId
              IN  (IsBehavioralId(nodes, s) /\ IsBehavioralId(nodes, t)) =>
                      /\ Occurs(order, NodeById(nodes, s).name)
                      /\ Occurs(order, NodeById(nodes, t).name)
                      /\ Position(order, NodeById(nodes, s).name)
                            < Position(order, NodeById(nodes, t).name)

\* three instructions chained against the input order, 3 -> 2 -> 1, are
\* listed 3, 2, 1
C21_Witness ==
    /\ GenerationReturned
    /\ Len(nodes) = 3
    /\ \A k \in DOMAIN nodes : nodes[k].type = "instruction"
    /\ ConnectionEdges(connections) = {<<3, 2>>, <<2, 1>>}
    /\ generated[1].value.programFlow.executionOrder
          = <<nodes[3].name, nodes[2].name, nodes[1].name>>

\* C22: when the connection list is not empty, the sequence the integration
\* test executes is programFlow.executionOrder, also when the input order of
\* the nodes differs from the dependency order.
C22_IntegrationOrderIsFlowOrder ==
    (GenerationReturned /\ connections # <<>>) =>
        /\ generated[1].value.tests.integrationTests # <<>>
        /\ generated[1].value.tests.integrationTests[1].executionOrder
              = generated[1].value.programFlow.executionOrder

\* a name in lower case with every maximal run of whitespace turned into one
\* underscore
Normalized(name) ==
    LET Kept(k) == name[k] \notin Whitespace \/ k = 1 \/ name[k - 1] \notin Whitespace
        kept == SelectSeq([k \in DOMAIN name |-> k], Kept)
    IN  [j \in DOMAIN kept |->
            IF name[kept[j]] \in Whitespace THEN "_"
            ELSE IF name[kept[j]] \in DOMAIN lowerCaseOf THEN lowerCaseOf[name[kept[j]]]
            ELSE name[kept[j]]]

\* the number of connections that have the node at one end or at both
ConnectionsTouching(conns, id) ==
    Cardinality({k \in DOMAIN conns :
        conns[k].sourceNodeId = id \/ conns[k].targetNodeId = id})

\* C23: the generated tests hold one test case per non-account node, in input
\* order, that reports the number of connections touching the node (a
\* connection counted once, a self-loop too) and invokes the node's normalized
\* entry function; the integration block is present exactly when the
\* connection list is not empty.
C23_TestCasesPerBehavioralNode ==
    GenerationReturned =>
        LET tests == generated[1].value.tests
            behavioral == BehavioralNodes(nodes)
        IN  /\ Len(tests.testCases) = Len(behavioral)
            /\ \A k \in DOMAIN behavioral :
                  /\ tests.testCases[k].name = behavioral[k].name
                  /\ tests.testCases[k].connectedNodes
                        = ConnectionsTouching(connections, behavioral[k].id)
                  /\ tests.testCases[k].functionName = Normalized(behavioral[k].name)
            /\ (tests.integrationTests # <<>>) <=> (connections # <<>>)

\* a non-account node with a self-loop and one more connection reports two
\* connections, next to an account node that gets no test case
C23_Witness ==
    /\ GenerationReturned
    /\ nodes[1].type = "instruction"
    /\ nodes[2].type = "account"
    /\ Len(connections) = 2
    /\ \E k \in DOMAIN connections :
          connections[k].sourceNodeId = 1 /\ connections[k].targetNodeId = 1
    /\ \E k \in DOMAIN connections :
          connections[k].sourceNodeId = 2 /\ connections[k].targetNodeId = 1
    /\ Len(generated[1].value.tests.testCases) = 1
    /\ generated[1].value.tests.testCases[1].connectedNodes = 2
    /\ generated[1].value.tests.testCases[1].functionName = <<"m", "o", "d", "_", "1">>
    /\ generated[1].value.tests.integrationTests # <<>>

----------------------------------------------------------------------------
(* The Vault -> Deposit scenario *)

VaultName == <<"V", "a", "u", "l", "t">>
DepositName == <<"D", "e", "p", "o", "s", "i", "t">>

\* the one connection Vault.p1 -> Deposit.p2
VaultIntoDeposit(conns) ==
    /\ Len(conns) = 1
    /\ conns[1].sourceNodeId = 1 /\ conns[1].sourcePortId = "p1"
    /\ conns[1].targetNodeId = 2 /\ conns[1].targetPortId = "p2"

\* the proposal Vault.p1 -> Deposit.p2 against an empty connection list
VaultIntoDepositProposed ==
    /\ proposal # <<>>
    /\ proposal[1].sourceNode.name = VaultName /\ proposal[1].sourcePort.id = "p1"
    /\ proposal[1].targetNode.name = DepositName /\ proposal[1].targetPort.id = "p2"
    /\ proposal[1].existingConnections = <<>>

VaultDepositAnalysis(result) ==
    /\ ~result.threw
    /\ result.value.dependencies[2] = <<1>>
    /\ result.value.executionOrder # <<>>
    /\ result.value.executionOrder[Len(result.value.executionOrder)] = 2
    /\ result.value.cycles = <<>>
    /\ result.value.isolatedNodes = <<>>

VaultDepositBundle(outcome) ==
    /\ ~outcome.threw
    /\ Len(outcome.value.instructions) = 1
    /\ outcome.value.instructions[1].executing = DepositName
    /\ Len(outcome.value.instructions[1].accountFields) = 1
    /\ outcome.value.instructions[1].accountFields[1].account = VaultName
    /\ Len(outcome.value.lib.accountStructs) = 1
    /\ outcome.value.lib.accountStructs[1].structName = VaultName

\* C24: on the canvas of an account node Vault (output p1 of type account) and
\* an instruction node Deposit (single input p2 of type account),
\* validateConnection accepts Vault.p1 -> Deposit.p2 against an empty list;
\* for the graph with that one connection analyzeFlow returns
\* dependencies[Deposit] = [Vault], an executionOrder ending with Deposit, no
\* cycle and no isolated node; and every call of generateAnchorCode on that
\* graph returns exactly one module, Deposit's, with exactly one account field,
\* derived from Vault, and one account declaration, Vault's.
C24_VaultDepositScenario ==
    /\ VaultIntoDepositProposed => validation = <<Valid>>
    /\ VaultIntoDeposit(connections) =>
          VaultDepositAnalysis(analyzeFlow(nodes, connections))
    /\ \A c \in DOMAIN calls :
          VaultIntoDeposit(calls[c].connections) => VaultDepositBundle(calls[c].outcome)

\* the connection was proposed on the empty canvas, accepted and stored, and
\* the stored graph was analysed and generated from
C24_Witness ==
    /\ VaultIntoDepositProposed
    /\ validation = <<Valid>>
    /\ VaultIntoDeposit(connections)
    /\ analysis = <<analyzeFlow(nodes, connections)>>
    /\ VaultDepositAnalysis(analysis[1])
    /\ calls # <<>>
    /\ VaultIntoDeposit(calls[Len(calls)].connections)
    /\ generated = <<calls[Len(calls)].outcome>>
    /\ VaultDepositBundle(generated[1])

IsPermutationOf(seq, set) == Len(seq) = Cardinality(set) /\ Range(seq) = set

\* C26: for every snapshot with resolved endpoints, cyclic or not,
\* analyzeFlow's executionOrder holds every node id exactly once, and
\* programFlow.executionOrder holds the name of every non-account node exactly
\* once and the name of no account node.
C26_OrdersArePermutations ==
    Resolved(nodes, connections) =>
        /\ analysis # <<>> =>
              /\ ~analysis[1].threw
              /\ IsPermutationOf(analysis[1].value.executionOrder, NodeIds(nodes))
        /\ generated # <<>> =>
              /\ ~generated[1].threw
              /\ IsPermutationOf(generated[1].value.programFlow.executionOrder,
                                 Range([k \in DOMAIN BehavioralNodes(nodes) |->
                                           BehavioralNodes(nodes)[k].name]))
              /\ \A k \in DOMAIN AccountNodes(nodes) :
                    ~Occurs(generated[1].value.programFlow.executionOrder,
                            AccountNodes(nodes)[k].name)

\* a three-node cycle, entered twice from node 1's dependency list, is ordered
\* with every node once
C26_Witness ==
    /\ AnalysisReturned
    /\ ConnectionEdges(connections) = {<<1, 2>>, <<2, 3>>, <<3, 1>>}
    /\ Len(connections) = 3
    /\ IsPermutationOf(analysis[1].value.executionOrder, {1, 2, 3})
    /\ analysis[1].value.cycles # <<>>

NoRepeats(seq) == \A i, j \in DOMAIN seq : seq[i] = seq[j] => i = j

\* C27: for every node t the dependencies[t] that analyzeFlow returns for the
\* stored graph holds no source id more than once, also when one source node
\* is connected to t through different ports.
C27_DependenciesAreSets ==
    LET result == analyzeFlow(nodes, connections) IN
    ~result.threw =>
        \A t \in DOMAIN result.value.dependencies :
            NoRepeats(result.value.dependencies[t])

\* a non-empty sequence of distinct ids in which every element has the next
\* one among its dependencies and the last has the first
IsSimpleCycle(cycle, dependencies) ==
    /\ cycle # <<>>
    /\ NoRepeats(cycle)
    /\ \A i \in DOMAIN cycle :
          /\ cycle[i] \in DOMAIN dependencies
          /\ Occurs(dependencies[cycle[i]],
                    IF i < Len(cycle) THEN cycle[i + 1] ELSE cycle[1])

\* C28: every sequence analyzeFlow puts in cycles is a simple cycle of the
\* dependency graph it returns.
C28_CyclesAreSimpleCycles ==
    AnalysisReturned =>
        \A k \in DOMAIN analysis[1].value.cycles :
            IsSimpleCycle(analysis[1].value.cycles[k], analysis[1].value.dependencies)

\* a cycle between 2 and 3 that the search enters from node 1: the reported
\* sequence leaves the head of the search path out
C28_Witness ==
    /\ AnalysisReturned
    /\ ConnectionEdges(connections) = {<<2, 1>>, <<3, 2>>, <<2, 3>>}
    /\ analysis[1].value.cycles = << <<2, 3>> >>

\* the entry module names one module per non-account node, in input order,
\* under the node's normalized name, which is the module's entry function
LibNamesModules ==
    GenerationReturned =>
        LET bundle == generated[1].value
            behavioral == BehavioralNodes(nodes)
        IN  /\ Len(bundle.lib.instructionImports) = Len(behavioral)
            /\ Len(bundle.lib.instructionHandlers) = Len(behavioral)
            /\ Len(bundle.instructions) = Len(behavioral)
            /\ \A k \in DOMAIN behavioral :
                  /\ bundle.lib.instructionImports[k] = Normalized(behavioral[k].name)
                  /\ bundle.lib.instructionHandlers[k] = Normalized(behavioral[k].name)
                  /\ bundle.instructions[k].functionName = Normalized(behavioral[k].name)

\* C29: the entry module declares and re-exports one module per non-account
\* node under the node's normalized name, and two distinct non-account nodes
\* never receive the same module name, also when they carry the same display
\* name or names that differ in case or whitespace only.
C29_ModuleNamesDistinct ==
    /\ LibNamesModules
    /\ GenerationReturned =>
          NoRepeats(generated[1].value.lib.instructionImports)

\* C30: in one returned bundle the module of a non-account node logs the
\* entry-point message exactly when the node's name is listed in
\* programFlow.entryPoints, also when the node's only incoming connections
\* come from account nodes.
C30_EntryPointNotionsAgree ==
    GenerationReturned =>
        LET bundle == generated[1].value
            behavioral == BehavioralNodes(nodes)
        IN  \A k \in DOMAIN behavioral :
                bundle.instructions[k].entryPoint
                    <=> Occurs(bundle.programFlow.entryPoints, behavioral[k].name)

====
